---------------------------- MODULE Spec2Model ----------------------------
(***************************************************************************)
(* Model of the pinia store "items" (src/vue-store-sample.ts).             *)
(*                                                                         *)
(* JavaScript objects have identity: the store keeps arrays of references  *)
(* to item objects and writes fields through those references.  The model  *)
(* therefore keeps a heap (object id -> record) and arrays of object ids.  *)
(* A value that may be null is a sequence of length 0 (null) or 1.         *)
(* Percentages are kept in hundredths (100.00 is 10000).                   *)
(***************************************************************************)
EXTENDS Integers, Sequences, FiniteSets, TLC

\* ---------------------------------------------------------------- bounds
MaxLen == 2          \* longest payload handed to setCopyOfItems in Spec
MaxId == 2           \* item ids used by payloads and by callers: 1..MaxId
MaxLenQ == 1         \* longest payload in the specification with reads
BigN == 20001        \* size of the one-topic registry of SpecLarge
MaxTotal == 14       \* getProgressPercent is applied to every total in 1..MaxTotal

TopicKeys == {"A", "B"}
TopicTitles == {"T"}
Scores == {5}
Comments == {"c"}
ItemIds == 1..MaxId

\* ------------------------------------------------- imported, not in src/
NUMBER_OF_STATIC_TOPICS == 2

getProgress(numberOfTopics) ==
    [i \in 1..numberOfTopics |-> 100 \div numberOfTopics]

\* ------------------------------------------------------------ null values
null == <<>>
Some(v) == <<v>>
NaN == 0 - 1
Infinity == 0 - 2

VARIABLES
    heap,                 \* object id -> record (raw records and items)
    payload,              \* the caller's array last passed to setCopyOfItems
    rawInput,             \* the records of that array as they were at the call
    modifiedItems,        \* modifiedItems.value: array of item object ids
    summaryItems,         \* the array summaryStore.initSummaryStore received
    initSummaryStoreCalls, \* calls of initSummaryStore made by the last call
    percentCall,          \* getProgressPercent applied on its own, or null
    selectedItemIndex,    \* selectedItemIndex.value (0-based, -1 not found)
    isItemsTopicExpanded, \* isItemsTopicExpanded.value: id -> boolean
    computedCache,        \* cached value of each computed, null when dirty
    thrown,               \* exception raised by the last call, or null
    lastCall              \* name of the last call made on the store

vars == <<heap, payload, rawInput, modifiedItems, summaryItems,
          initSummaryStoreCalls, percentCall,
          selectedItemIndex, isItemsTopicExpanded, computedCache, thrown,
          lastCall>>

ComputedNames == {"itemTopicKeys", "itemTopicTitles", "itemsByTopics",
                  "totalProgress", "isQuizCompleted"}

\* ------------------------------------------------------------ the inputs
RawItems == [itemId : ItemIds, topicKey : TopicKeys, topicTitle : TopicTitles]

RECURSIVE SeqsUpTo(_, _)
SeqsUpTo(S, n) ==
    IF n = 0 THEN {<<>>}
    ELSE LET shorter == SeqsUpTo(S, n - 1)
         IN  shorter \cup {Append(s, x) : s \in {t \in shorter : Len(t) = n - 1}, x \in S}

\* The store only compares itemIds for equality, so every payload is a
\* renaming of one whose itemIds are numbered in order of first appearance.
Max(S) == CHOOSE m \in S : \A x \in S : x <= m

NumberedByFirstAppearance(p) ==
    \A i \in 1..Len(p) :
        p[i].itemId <= 1 + Max({0} \cup {p[j].itemId : j \in 1..(i - 1)})

Payloads == {p \in SeqsUpTo(RawItems, MaxLen) : NumberedByFirstAppearance(p)}

\* The registry as the items it refers to.
Items == [i \in 1..Len(modifiedItems) |-> heap[modifiedItems[i]]]

\* ------------------------------------------------ reactivity (ref, computed)
\* A write to a reactive source marks dirty every computed that read it,
\* and every computed that read one of those.
DirtyOnArray == ComputedNames
\* Variant: no computed is marked dirty by a write to a score.
DirtyOnScore_Nothing == {}

DirtyOnScore == {"totalProgress", "isQuizCompleted"}
DirtyOnFulfilled == {"totalProgress", "isQuizCompleted"}
DirtyOnComment == {}

Trigger(cache, names) ==
    [c \in ComputedNames |-> IF c \in names THEN null ELSE cache[c]]

\* ------------------------------------------------------------ Item Registry
\* Variant: the raw record's itemId is not carried over (every item gets 0).
NormalizedCopy_WithoutItemId(item) ==
    [itemId |-> 0, topicKey |-> item.topicKey,
     topicTitle |-> item.topicTitle,
     score |-> null, comment |-> null, fulfilled |-> TRUE]

NormalizedCopy(item) ==
    [itemId |-> item.itemId, topicKey |-> item.topicKey,
     topicTitle |-> item.topicTitle,
     score |-> null, comment |-> null, fulfilled |-> TRUE]

\* Variant: the defaults are written into the caller's own records.
setCopyOfItems_InPlace(p) ==
    LET n == Len(p) IN
    /\ heap' = [o \in 1..n |-> NormalizedCopy(p[o])]
    /\ payload' = [i \in 1..n |-> i]
    /\ rawInput' = p
    /\ modifiedItems' = [i \in 1..n |-> i]
    /\ summaryItems' = Some([i \in 1..n |-> i])
    /\ initSummaryStoreCalls' = 1
    /\ lastCall' = "setCopyOfItems"
    /\ computedCache' = Trigger(computedCache, DirtyOnArray)
    /\ thrown' = null
    /\ UNCHANGED <<selectedItemIndex, isItemsTopicExpanded, percentCall>>

setCopyOfItems(p) ==
    LET n == Len(p) IN
    /\ heap' = [o \in 1..(2 * n) |->
                   IF o <= n THEN p[o] ELSE NormalizedCopy(p[o - n])]
    /\ payload' = [i \in 1..n |-> i]
    /\ rawInput' = p
    /\ modifiedItems' = [i \in 1..n |-> n + i]
    /\ summaryItems' = Some([i \in 1..n |-> n + i])
    /\ initSummaryStoreCalls' = 1
    /\ lastCall' = "setCopyOfItems"
    /\ computedCache' = Trigger(computedCache, DirtyOnArray)
    /\ thrown' = null
    /\ UNCHANGED <<selectedItemIndex, isItemsTopicExpanded, percentCall>>

\* findIndex: 0-based position of the first item with that itemId, -1 if none.
Min(S) == CHOOSE m \in S : \A x \in S : m <= x

\* Variant: findLastIndex, the position of the last item with that itemId.
findIndexOfItem_LastMatch(index) ==
    LET hits == {i \in 1..Len(modifiedItems) : heap[modifiedItems[i]].itemId = index}
    IN  IF hits = {} THEN 0 - 1 ELSE Max(hits) - 1

findIndexOfItem(index) ==
    LET hits == {i \in 1..Len(modifiedItems) : heap[modifiedItems[i]].itemId = index}
    IN  IF hits = {} THEN 0 - 1 ELSE Min(hits) - 1

\* Variant: Array.prototype.at, which counts a negative index from the end.
ItemAt_FromTheEnd(idx) ==
    IF idx + 1 \in 1..Len(modifiedItems) THEN Some(modifiedItems[idx + 1])
    ELSE IF idx < 0 /\ Len(modifiedItems) + 1 + idx \in 1..Len(modifiedItems)
         THEN Some(modifiedItems[Len(modifiedItems) + 1 + idx])
         ELSE null

\* modifiedItems.value[idx]: the element at the 0-based idx, undefined (null
\* here) when there is none, as at -1.
ItemAt(idx) ==
    IF idx + 1 \in 1..Len(modifiedItems) THEN Some(modifiedItems[idx + 1])
    ELSE null

\* Variant: writing a score also marks the item fulfilled.
updateScoreOfItem_MarksFulfilled(score, itemId) ==
    LET idx == findIndexOfItem(itemId) IN
    /\ selectedItemIndex' = Some(idx)
    /\ lastCall' = "updateScoreOfItem"
    /\ IF ItemAt(idx) = null
       THEN /\ thrown' = Some("TypeError")
            /\ UNCHANGED <<heap, computedCache>>
       ELSE LET o == ItemAt(idx)[1] IN
            /\ heap' = [heap EXCEPT ![o].score = Some(score),
                                    ![o].fulfilled = TRUE]
            /\ computedCache' =
                  Trigger(computedCache, DirtyOnScore \cup DirtyOnFulfilled)
            /\ thrown' = null
    /\ initSummaryStoreCalls' = 0
    /\ UNCHANGED <<payload, rawInput, modifiedItems, summaryItems,
                   isItemsTopicExpanded, percentCall>>

\* Assigning a property of undefined raises a TypeError.
updateScoreOfItem(score, itemId) ==
    LET idx == findIndexOfItem(itemId) IN
    /\ selectedItemIndex' = Some(idx)
    /\ lastCall' = "updateScoreOfItem"
    /\ IF ItemAt(idx) = null
       THEN /\ thrown' = Some("TypeError")
            /\ UNCHANGED <<heap, computedCache>>
       ELSE LET o == ItemAt(idx)[1] IN
            /\ heap' = [heap EXCEPT ![o].score = Some(score)]
            /\ computedCache' =
                  IF heap[o].score # Some(score)
                  THEN Trigger(computedCache, DirtyOnScore)
                  ELSE computedCache
            /\ thrown' = null
    /\ initSummaryStoreCalls' = 0
    /\ UNCHANGED <<payload, rawInput, modifiedItems, summaryItems,
                   isItemsTopicExpanded, percentCall>>

updateCommentOfItem(comment, itemId) ==
    LET idx == findIndexOfItem(itemId) IN
    /\ selectedItemIndex' = Some(idx)
    /\ lastCall' = "updateCommentOfItem"
    /\ IF ItemAt(idx) = null
       THEN /\ thrown' = Some("TypeError")
            /\ UNCHANGED <<heap, computedCache>>
       ELSE LET o == ItemAt(idx)[1] IN
            /\ heap' = [heap EXCEPT ![o].comment = Some(comment)]
            /\ computedCache' =
                  IF heap[o].comment # Some(comment)
                  THEN Trigger(computedCache, DirtyOnComment)
                  ELSE computedCache
            /\ thrown' = null
    /\ initSummaryStoreCalls' = 0
    /\ UNCHANGED <<payload, rawInput, modifiedItems, summaryItems,
                   isItemsTopicExpanded, percentCall>>

\* Variant: the flag is flipped and the score is kept.
changeItemFulfilled_KeepsScore(itemId) ==
    LET idx == findIndexOfItem(itemId) IN
    /\ selectedItemIndex' = Some(idx)
    /\ lastCall' = "changeItemFulfilled"
    /\ thrown' = null
    /\ IF ItemAt(idx) = null
       THEN UNCHANGED <<heap, computedCache>>
       ELSE LET o == ItemAt(idx)[1] IN
            /\ heap' = [heap EXCEPT ![o].fulfilled = ~heap[o].fulfilled]
            /\ computedCache' = Trigger(computedCache, DirtyOnFulfilled)
    /\ initSummaryStoreCalls' = 0
    /\ UNCHANGED <<payload, rawInput, modifiedItems, summaryItems,
                   isItemsTopicExpanded, percentCall>>

changeItemFulfilled(itemId) ==
    LET idx == findIndexOfItem(itemId) IN
    /\ selectedItemIndex' = Some(idx)
    /\ lastCall' = "changeItemFulfilled"
    /\ thrown' = null
    /\ IF ItemAt(idx) = null
       THEN UNCHANGED <<heap, computedCache>>
       ELSE LET o == ItemAt(idx)[1] IN
            /\ heap' = [heap EXCEPT ![o].fulfilled = ~heap[o].fulfilled,
                                    ![o].score = null]
            /\ computedCache' =
                  Trigger(computedCache,
                          DirtyOnFulfilled \cup
                            (IF heap[o].score # null THEN DirtyOnScore ELSE {}))
    /\ initSummaryStoreCalls' = 0
    /\ UNCHANGED <<payload, rawInput, modifiedItems, summaryItems,
                   isItemsTopicExpanded, percentCall>>

\* Variant: the summary store is initialised again with the emptied registry.
resetStore_InitsSummary ==
    /\ modifiedItems' = <<>>
    /\ summaryItems' = Some(<<>>)
    /\ initSummaryStoreCalls' = 1
    /\ lastCall' = "resetStore"
    /\ computedCache' = Trigger(computedCache, DirtyOnArray)
    /\ thrown' = null
    /\ UNCHANGED <<heap, payload, rawInput, selectedItemIndex,
                   isItemsTopicExpanded, percentCall>>

resetStore ==
    /\ modifiedItems' = <<>>
    /\ lastCall' = "resetStore"
    /\ computedCache' = Trigger(computedCache, DirtyOnArray)
    /\ thrown' = null
    /\ initSummaryStoreCalls' = 0
    /\ UNCHANGED <<heap, payload, rawInput, summaryItems, selectedItemIndex,
                   isItemsTopicExpanded, percentCall>>

\* -------------------------------------------------------------- Topic Index
Range(f) == {f[i] : i \in DOMAIN f}

RECURSIVE Ascending(_)
Ascending(S) ==
    IF S = {} THEN <<>> ELSE <<Min(S)>> \o Ascending(S \ {Min(S)})

\* Variant: the keys are spread without passing through a Set.
SpreadOfSet_KeepsAll(seq) == [p \in 1..Len(seq) |-> seq[p]]

\* [...new Set(seq)]: a Set keeps each value once, in insertion order.
SpreadOfSet(seq) ==
    LET first == {i \in 1..Len(seq) : \A j \in 1..(i - 1) : seq[j] # seq[i]}
        at == Ascending(first)
    IN  [p \in 1..Len(at) |-> seq[at[p]]]

itemTopicKeysGetter ==
    SpreadOfSet([i \in 1..Len(modifiedItems) |-> heap[modifiedItems[i]].topicKey])

itemTopicKeys ==
    IF computedCache.itemTopicKeys # null
    THEN computedCache.itemTopicKeys[1] ELSE itemTopicKeysGetter

\* find(...)?.topicTitle is undefined when no item bears the key.
undefined == "undefined"

itemTopicTitlesOf(keys) ==
    [topicKey \in Range(keys) |->
        LET hits == {i \in 1..Len(modifiedItems) :
                        heap[modifiedItems[i]].topicKey = topicKey}
        IN  IF hits = {} THEN undefined
            ELSE heap[modifiedItems[Min(hits)]].topicTitle]

itemTopicTitlesGetter == itemTopicTitlesOf(itemTopicKeys)

itemTopicTitles ==
    IF computedCache.itemTopicTitles # null
    THEN computedCache.itemTopicTitles[1] ELSE itemTopicTitlesGetter

\* Variant: the id is taken from the 0-based index.
itemsByTopicsOf_ZeroBasedId(keys) ==
    [p \in 1..Len(keys) |->
        [topicKey |-> keys[p],
         items |-> SelectSeq(modifiedItems,
                             LAMBDA o : heap[o].topicKey = keys[p]),
         id |-> (p - 1) + NUMBER_OF_STATIC_TOPICS]]

\* index is 0-based in the source: id = index + 1 + NUMBER_OF_STATIC_TOPICS.
itemsByTopicsOf(keys) ==
    [p \in 1..Len(keys) |->
        [topicKey |-> keys[p],
         items |-> SelectSeq(modifiedItems,
                             LAMBDA o : heap[o].topicKey = keys[p]),
         id |-> (p - 1) + 1 + NUMBER_OF_STATIC_TOPICS]]

itemsByTopicsGetter == itemsByTopicsOf(itemTopicKeys)

itemsByTopics ==
    IF computedCache.itemsByTopics # null
    THEN computedCache.itemsByTopics[1] ELSE itemsByTopicsGetter

\* Variant: the map is not emptied first, so the entries of earlier ids stay.
ExpandedAfterItemsByTopics_KeepsEntries ==
    IF computedCache.itemsByTopics # null
    THEN isItemsTopicExpanded
    ELSE LET ids == {itemsByTopicsGetter[p].id : p \in 1..Len(itemTopicKeys)}
         IN  [id \in ids \cup DOMAIN isItemsTopicExpanded |->
                 IF id \in ids THEN FALSE ELSE isItemsTopicExpanded[id]]

\* The getter of itemsByTopics also rewrites isItemsTopicExpanded.value
\* (the keys id.toString() are kept as the ids themselves).
ExpandedAfterItemsByTopics ==
    IF computedCache.itemsByTopics # null
    THEN isItemsTopicExpanded
    ELSE [id \in {itemsByTopicsGetter[p].id : p \in 1..Len(itemTopicKeys)} |-> FALSE]

\* ------------------------------------------------------ Progress Aggregator
\* Variant: the key is compared with the item's topicTitle.
getNumberOfItemsPerTopic_ByTitle(topicKey) ==
    Cardinality({i \in 1..Len(modifiedItems) :
                    heap[modifiedItems[i]].topicTitle = topicKey})

\* Variant: the reduce starts from 1.
getNumberOfItemsPerTopic_FromOne(topicKey) ==
    1 + Cardinality({i \in 1..Len(modifiedItems) :
                        heap[modifiedItems[i]].topicKey = topicKey})

getNumberOfItemsPerTopic(topicKey) ==
    Cardinality({i \in 1..Len(modifiedItems) :
                    heap[modifiedItems[i]].topicKey = topicKey})

\* Variant: the topic of the item is not compared.
getNumberOfAnsweredItemsPerTopic_AnyTopic(topicKey) ==
    Cardinality({i \in 1..Len(modifiedItems) :
                    \/ heap[modifiedItems[i]].score # null
                    \/ heap[modifiedItems[i]].fulfilled = FALSE})

getNumberOfAnsweredItemsPerTopic(topicKey) ==
    Cardinality({i \in 1..Len(modifiedItems) :
                    /\ heap[modifiedItems[i]].topicKey = topicKey
                    /\ \/ heap[modifiedItems[i]].score # null
                       \/ heap[modifiedItems[i]].fulfilled = FALSE})

\* Variant: toFixed(1), the nearest tenth.
getProgressPercent_OneDecimal(value, total) ==
    IF total = 0 THEN (IF value = 0 THEN NaN ELSE Infinity)
    ELSE 10 * ((2 * value * 1000 + total) \div (2 * total))

\* Number(((value / total) * 100).toFixed(2)), in hundredths: the nearest
\* hundredth, the larger one on a tie.  0/0 is NaN, value/0 is Infinity.
\* (The quotient is a double: at an exact tie it can lie just below the tie
\* and round down, as 23/160 does.  Of the inputs used here only 19999/20000
\* is a tie, and it rounds up to 100.00 in double arithmetic too.)
getProgressPercent(value, total) ==
    IF total = 0 THEN (IF value = 0 THEN NaN ELSE Infinity)
    ELSE (2 * value * 10000 + total) \div (2 * total)

totalProgressOf(keys, titles) ==
    LET numberOfTopics == Len(keys)
        progress == getProgress(numberOfTopics)
    IN  [p \in 1..numberOfTopics |->
            LET topicKey == keys[p] IN
            [topicKey |-> topicKey,
             topicTitle |-> IF topicKey \in DOMAIN titles
                            THEN titles[topicKey] ELSE undefined,
             widthPercentage |-> progress[p],
             progressPercent |->
                 getProgressPercent(getNumberOfAnsweredItemsPerTopic(topicKey),
                                    getNumberOfItemsPerTopic(topicKey))]]

totalProgressGetter == totalProgressOf(itemTopicKeys, itemTopicTitles)

totalProgress ==
    IF computedCache.totalProgress # null
    THEN computedCache.totalProgress[1] ELSE totalProgressGetter

isQuizCompletedOf(progress) ==
    \A p \in 1..Len(progress) : progress[p].progressPercent = 10000

isQuizCompletedGetter == isQuizCompletedOf(totalProgress)

isQuizCompleted ==
    IF computedCache.isQuizCompleted # null
    THEN computedCache.isQuizCompleted[1] ELSE isQuizCompletedGetter

\* --------------------------------------------------- reading the computeds
\* Reading a computed evaluates its getter when it is dirty, which reads
\* (and so fills) the computeds the getter uses, and caches the result.
ValueOf(name) ==
    CASE name = "itemTopicKeys" -> itemTopicKeys
      [] name = "itemTopicTitles" -> itemTopicTitles
      [] name = "itemsByTopics" -> itemsByTopics
      [] name = "totalProgress" -> totalProgress
      [] name = "isQuizCompleted" -> isQuizCompleted

Fill(names) ==
    [c \in ComputedNames |->
        IF c \in names THEN Some(ValueOf(c)) ELSE computedCache[c]]

ReadUnchanged ==
    /\ initSummaryStoreCalls' = 0
    /\ UNCHANGED <<heap, payload, rawInput, modifiedItems, summaryItems,
                   selectedItemIndex, percentCall>>

ReadItemTopicKeys ==
    /\ lastCall' = "itemTopicKeys"
    /\ computedCache' = Fill({"itemTopicKeys"})
    /\ thrown' = null
    /\ UNCHANGED isItemsTopicExpanded
    /\ ReadUnchanged

ReadItemTopicTitles ==
    /\ lastCall' = "itemTopicTitles"
    /\ computedCache' =
          Fill(IF computedCache.itemTopicTitles # null THEN {}
               ELSE {"itemTopicKeys", "itemTopicTitles"})
    /\ thrown' = null
    /\ UNCHANGED isItemsTopicExpanded
    /\ ReadUnchanged

ReadItemsByTopics ==
    /\ lastCall' = "itemsByTopics"
    /\ computedCache' =
          Fill(IF computedCache.itemsByTopics # null THEN {}
               ELSE {"itemTopicKeys", "itemsByTopics"})
    /\ isItemsTopicExpanded' = ExpandedAfterItemsByTopics
    /\ thrown' = null
    /\ ReadUnchanged

ReadTotalProgress ==
    /\ lastCall' = "totalProgress"
    /\ computedCache' =
          Fill(IF computedCache.totalProgress # null THEN {}
               ELSE {"itemTopicKeys", "itemTopicTitles", "totalProgress"})
    /\ thrown' = null
    /\ UNCHANGED isItemsTopicExpanded
    /\ ReadUnchanged

ReadIsQuizCompleted ==
    /\ lastCall' = "isQuizCompleted"
    /\ computedCache' =
          Fill(IF computedCache.isQuizCompleted # null THEN {}
               ELSE IF computedCache.totalProgress # null THEN {"isQuizCompleted"}
               ELSE {"itemTopicKeys", "itemTopicTitles", "totalProgress",
                     "isQuizCompleted"})
    /\ thrown' = null
    /\ UNCHANGED isItemsTopicExpanded
    /\ ReadUnchanged

\* isItemsTopicExpanded is returned by the store: a component expands or
\* collapses a topic by writing the entry of its id.  The getter of
\* itemsByTopics reads none of the entries, so the write leaves it clean.
ToggleExpanded ==
    /\ \E id \in DOMAIN isItemsTopicExpanded :
          isItemsTopicExpanded' =
              [isItemsTopicExpanded EXCEPT ![id] = ~isItemsTopicExpanded[id]]
    /\ lastCall' = "isItemsTopicExpanded"
    /\ thrown' = null
    /\ initSummaryStoreCalls' = 0
    /\ UNCHANGED <<heap, payload, rawInput, modifiedItems, summaryItems,
                   selectedItemIndex, computedCache, percentCall>>

\* ------------------------------------------------------- the specifications
Init ==
    /\ heap = <<>>
    /\ payload = <<>>
    /\ rawInput = <<>>
    /\ modifiedItems = <<>>
    /\ summaryItems = null
    /\ initSummaryStoreCalls = 0
    /\ percentCall = null
    /\ selectedItemIndex = null
    /\ isItemsTopicExpanded = <<>>
    /\ computedCache = [c \in ComputedNames |-> null]
    /\ thrown = null
    /\ lastCall = "defineStore"

Load == \E p \in Payloads : setCopyOfItems(p)
SetScore == \E s \in Scores, id \in ItemIds : updateScoreOfItem(s, id)
SetComment == \E c \in Comments, id \in ItemIds : updateCommentOfItem(c, id)
ToggleFulfilled == \E id \in ItemIds : changeItemFulfilled(id)
Reset == resetStore

\* The store driven by its mutations alone (every computed stays dirty, so
\* each read below evaluates its getter on the current registry).
Next == Load \/ SetScore \/ SetComment \/ ToggleFulfilled \/ Reset

Spec == Init /\ [][Next]_vars

\* The store holding one topic of BigN items (itemIds 1, 1001, 2001, ...) of
\* which all but the first are scored: the state after
\* setCopyOfItems(LargePayload) and then updateScoreOfItem(5, id) for the id
\* of every item but the first.
LargePayload ==
    SubSeq([i \in 1..BigN |->
               [itemId |-> 1 + 1000 * (i - 1), topicKey |-> "A", topicTitle |-> "T"]],
           1, BigN)

InitLarge ==
    /\ heap = SubSeq([o \in 1..(2 * BigN) |->
                        IF o <= BigN THEN LargePayload[o]
                        ELSE [NormalizedCopy(LargePayload[o - BigN]) EXCEPT
                                 !.score = IF o - BigN = 1 THEN null ELSE Some(5)]],
                     1, 2 * BigN)
    /\ payload = SubSeq([i \in 1..BigN |-> i], 1, BigN)
    /\ rawInput = LargePayload
    /\ modifiedItems = SubSeq([i \in 1..BigN |-> BigN + i], 1, BigN)
    /\ summaryItems = Some(SubSeq([i \in 1..BigN |-> BigN + i], 1, BigN))
    /\ initSummaryStoreCalls = 0
    /\ percentCall = null
    /\ selectedItemIndex = Some(BigN - 1)
    /\ isItemsTopicExpanded = <<>>
    /\ computedCache = [c \in ComputedNames |-> null]
    /\ thrown = null
    /\ lastCall = "updateScoreOfItem"

SpecLarge == InitLarge /\ [][Next]_vars

\* The store with the reads of its computeds interleaved.
\* Its payloads are the well-formed ones: the item at position i has itemId i.
UniquePayloads ==
    {p \in SeqsUpTo([itemId : 1..MaxLenQ, topicKey : TopicKeys,
                     topicTitle : TopicTitles], MaxLenQ) :
        \A i \in 1..Len(p) : p[i].itemId = i}

LoadQ == \E p \in UniquePayloads : setCopyOfItems(p)

NextQ ==
    \/ LoadQ \/ SetScore \/ SetComment \/ ToggleFulfilled \/ Reset
    \/ ReadItemTopicKeys \/ ReadItemTopicTitles \/ ReadItemsByTopics
    \/ ReadTotalProgress \/ ReadIsQuizCompleted
    \/ ToggleExpanded

SpecQ == Init /\ [][NextQ]_vars

\* getProgressPercent on its own, applied to every value in 0..total for the
\* small totals and to the values next to total for totals around 20000,
\* beside a store whose topics report their progress through it.
PercentInputs ==
    {<<value, total>> \in (0..MaxTotal) \X (1..MaxTotal) : value <= total}
    \cup {<<total - d, total>> : d \in 0..2, total \in {19999, 20000, BigN}}

ApplyPercent ==
    /\ \E in \in PercentInputs :
          percentCall' = Some([value |-> in[1], total |-> in[2],
                               result |-> getProgressPercent(in[1], in[2])])
    /\ UNCHANGED <<heap, payload, rawInput, modifiedItems, summaryItems,
                   initSummaryStoreCalls, selectedItemIndex,
                   isItemsTopicExpanded, computedCache, thrown, lastCall>>

NextPercent == LoadQ \/ SetScore \/ ToggleFulfilled \/ ApplyPercent

SpecPercent == Init /\ [][NextPercent]_vars


\* ------------------------------------------------------------------ claims
Item(i) == heap[modifiedItems[i]]
Answered(i) == Item(i).score # null \/ Item(i).fulfilled = FALSE
IsNormalized(i) ==
    Item(i).score = null /\ Item(i).comment = null /\ Item(i).fulfilled = TRUE

\* C1: isQuizCompleted is true if and only if every item of the registry
\* has a score or is not fulfilled (so it is true of the empty registry).
C1_CompleteIffEveryItemAnswered ==
    isQuizCompleted <=> \A i \in 1..Len(modifiedItems) : Answered(i)

\* C2: updateScoreOfItem and updateCommentOfItem with an itemId that no item
\* carries raise no error and change no item and not the registry.
C2_MissingIdIsSilentNoOp ==
    [][(/\ lastCall' \in {"updateScoreOfItem", "updateCommentOfItem"}
        /\ selectedItemIndex' = Some(0 - 1))
       => (thrown' = null /\ heap' = heap /\ modifiedItems' = modifiedItems)]_vars

\* C3: changeItemFulfilled(itemId), for an itemId the registry resolves,
\* negates fulfilled of the item found and leaves its score null; its
\* comment, every other object and the registry array are unchanged.
C3_ToggleNegatesAndClearsScore ==
    [][\A id \in ItemIds :
          (lastCall' = "changeItemFulfilled" /\ changeItemFulfilled(id)
             /\ findIndexOfItem(id) # 0 - 1)
          => LET o == modifiedItems[findIndexOfItem(id) + 1] IN
             /\ heap'[o].fulfilled = ~heap[o].fulfilled
             /\ heap'[o].score = null
             /\ heap'[o].comment = heap[o].comment
             /\ DOMAIN heap' = DOMAIN heap
             /\ \A x \in DOMAIN heap \ {o} : heap'[x] = heap[x]
             /\ modifiedItems' = modifiedItems]_vars

\* A toggle has just made the first of two items not fulfilled; its comment
\* is still there and the other item still carries its score.
C3_Witness ==
    /\ lastCall = "changeItemFulfilled"
    /\ selectedItemIndex = Some(0)
    /\ Len(modifiedItems) = 2
    /\ Item(1).fulfilled = FALSE /\ Item(1).score = null
    /\ Item(1).comment = Some("c")
    /\ Item(2).score = Some(5)

\* C4: no item is not fulfilled and carries a score.
C4_NotFulfilledCarriesNoScore ==
    \A i \in 1..Len(modifiedItems) :
        Item(i).fulfilled = FALSE => Item(i).score = null

\* C5: setCopyOfItems replaces the registry by one item per raw record, in
\* order, with the raw fields and score null, comment null, fulfilled true;
\* and no call ever changes the caller's raw records.
C5_LoadReplacesByNormalizedCopies ==
    [][/\ lastCall' = "setCopyOfItems" =>
             /\ Len(modifiedItems') = Len(rawInput')
             /\ \A i \in 1..Len(rawInput') :
                   heap'[modifiedItems'[i]] =
                      [itemId |-> rawInput'[i].itemId,
                       topicKey |-> rawInput'[i].topicKey,
                       topicTitle |-> rawInput'[i].topicTitle,
                       score |-> null, comment |-> null, fulfilled |-> TRUE]
       /\ Len(payload') = Len(rawInput')
       /\ \A i \in 1..Len(payload') : heap'[payload'[i]] = rawInput'[i]]_vars

\* A load of two records has just replaced a registry in which an earlier
\* call had found an item to change.
C5_Witness ==
    /\ lastCall = "setCopyOfItems"
    /\ Len(modifiedItems) = 2
    /\ selectedItemIndex \in {Some(0), Some(1)}
    /\ \A i \in 1..2 : IsNormalized(i)
    /\ \A i \in 1..2 : heap[payload[i]] = rawInput[i]

\* C6: after setCopyOfItems(L), itemTopicKeys holds each distinct topicKey
\* of L exactly once, ordered by the position of its first occurrence in L.
FirstPos(k) == Min({i \in 1..Len(rawInput) : rawInput[i].topicKey = k})

C6_TopicKeysInFirstOccurrenceOrder ==
    lastCall = "setCopyOfItems" =>
        /\ Range(itemTopicKeys) = {rawInput[i].topicKey : i \in 1..Len(rawInput)}
        /\ \A p, q \in 1..Len(itemTopicKeys) :
              p < q => FirstPos(itemTopicKeys[p]) < FirstPos(itemTopicKeys[q])

\* The load of a "B" record followed by an "A" record: the keys are B, A.
C6_Witness ==
    /\ lastCall = "setCopyOfItems"
    /\ Len(rawInput) = 2
    /\ rawInput[1].topicKey = "B" /\ rawInput[2].topicKey = "A"
    /\ itemTopicKeys = <<"B", "A">>

\* C7: getNumberOfItemsPerTopic summed over itemTopicKeys is the number of
\* items in the registry.
RECURSIVE SumOfCounts(_)
SumOfCounts(keys) ==
    IF keys = <<>> THEN 0
    ELSE getNumberOfItemsPerTopic(Head(keys)) + SumOfCounts(Tail(keys))

C7_CountsSumToRegistrySize ==
    SumOfCounts(itemTopicKeys) = Len(modifiedItems)

\* Two items of one topic, after a toggle: one key, whose count is 2.
C7_Witness ==
    /\ lastCall = "changeItemFulfilled"
    /\ Len(modifiedItems) = 2
    /\ Len(itemTopicKeys) = 1
    /\ getNumberOfItemsPerTopic(itemTopicKeys[1]) = 2

\* C8: itemsByTopics has one group per topic key, in itemTopicKeys order; the
\* group of key k holds exactly the registry items of topic k, in registry
\* order, so every item is in exactly one group; the group at 1-based
\* position p has id NUMBER_OF_STATIC_TOPICS + p.
PosInRegistry(o) == Min({i \in 1..Len(modifiedItems) : modifiedItems[i] = o})

C8_GroupsPartitionTheRegistry ==
    LET groups == itemsByTopics IN
    /\ Len(groups) = Len(itemTopicKeys)
    /\ \A p \in 1..Len(groups) :
          /\ groups[p].topicKey = itemTopicKeys[p]
          /\ groups[p].id = NUMBER_OF_STATIC_TOPICS + p
          /\ Range(groups[p].items) =
                {o \in Range(modifiedItems) : heap[o].topicKey = groups[p].topicKey}
          /\ \A a, b \in 1..Len(groups[p].items) :
                a < b => PosInRegistry(groups[p].items[a])
                           < PosInRegistry(groups[p].items[b])
    /\ \A o \in Range(modifiedItems) :
          Cardinality({p \in 1..Len(groups) : o \in Range(groups[p].items)}) = 1

\* Two items of two topics: two groups of one item each.
C8_Witness ==
    /\ Len(modifiedItems) = 2
    /\ Len(itemsByTopics) = 2
    /\ itemsByTopics[1].items = <<modifiedItems[1]>>
    /\ itemsByTopics[2].items = <<modifiedItems[2]>>
    /\ itemsByTopics[2].id = NUMBER_OF_STATIC_TOPICS + 2

\* C9: totalProgress has one entry per topic key, in itemTopicKeys order,
\* whose progressPercent is getProgressPercent(answered, count), answered
\* being the number of items of the topic with a score or not fulfilled and
\* count the number of items of the topic; so it lies in 0..100.
C9_ProgressPerTopic ==
    LET report == totalProgress IN
    /\ Len(report) = Len(itemTopicKeys)
    /\ \A p \in 1..Len(report) :
          LET ofTopic == {i \in 1..Len(modifiedItems) :
                             Item(i).topicKey = itemTopicKeys[p]}
              answered == {i \in ofTopic : Answered(i)}
          IN  /\ report[p].topicKey = itemTopicKeys[p]
              /\ report[p].progressPercent =
                    getProgressPercent(Cardinality(answered), Cardinality(ofTopic))
              /\ report[p].progressPercent >= 0
              /\ report[p].progressPercent <= 10000

\* Two topics of one item each, the first answered by a score and the
\* second not answered: 100.00 and 0.00.
C9_Witness ==
    /\ Len(totalProgress) = 2
    /\ Item(1).score = Some(5)
    /\ totalProgress[1].progressPercent = 10000
    /\ totalProgress[2].progressPercent = 0

\* C10: a computed that is not dirty holds the value its getter yields on
\* the registry as it is now, so no read returns a value of a registry
\* state that preceded the latest mutation.
FreshValueOf(name) ==
    LET keys == itemTopicKeysGetter
        titles == itemTopicTitlesOf(keys)
        progress == totalProgressOf(keys, titles)
    IN  CASE name = "itemTopicKeys" -> keys
          [] name = "itemTopicTitles" -> titles
          [] name = "itemsByTopics" -> itemsByTopicsOf(keys)
          [] name = "totalProgress" -> progress
          [] name = "isQuizCompleted" -> isQuizCompletedOf(progress)

C10_ReadsReflectCurrentRegistry ==
    /\ \A c \in ComputedNames :
          computedCache[c] # null => computedCache[c][1] = FreshValueOf(c)
    /\ lastCall \in ComputedNames => computedCache[lastCall] # null

\* isQuizCompleted has just been read as true of a registry holding an item,
\* after the load and the mutation that answered it, and after a read of
\* itemsByTopics.
C10_Witness ==
    /\ lastCall = "isQuizCompleted"
    /\ Len(modifiedItems) = 1
    /\ computedCache.isQuizCompleted = Some(TRUE)
    /\ computedCache.itemsByTopics # null

\* C11: a call of setCopyOfItems calls summaryStore.initSummaryStore exactly
\* once, with the array the registry holds after the call, whose items are
\* the normalized copies; a call of resetStore, updateScoreOfItem,
\* updateCommentOfItem or changeItemFulfilled makes no such call and leaves
\* what the summary store received as it was.  While the registry is not
\* empty the summary store holds the registry's own item objects, so it
\* sees every later write to them.
C11_InitSummaryOncePerLoad ==
    /\ [](modifiedItems # <<>> => summaryItems = Some(modifiedItems))
    /\ [][/\ lastCall' = "setCopyOfItems" =>
               /\ initSummaryStoreCalls' = 1
               /\ summaryItems' = Some(modifiedItems')
               /\ Len(summaryItems'[1]) = Len(rawInput')
               /\ \A i \in 1..Len(rawInput') :
                     heap'[summaryItems'[1][i]] =
                        [itemId |-> rawInput'[i].itemId,
                         topicKey |-> rawInput'[i].topicKey,
                         topicTitle |-> rawInput'[i].topicTitle,
                         score |-> null, comment |-> null, fulfilled |-> TRUE]
          /\ lastCall' \in {"resetStore", "updateScoreOfItem",
                            "updateCommentOfItem", "changeItemFulfilled"} =>
               /\ initSummaryStoreCalls' = 0
               /\ summaryItems' = summaryItems]_vars

\* After a load and a reset, a second load and then a score: the summary
\* store holds the second registry and reads the score through it.
C11_Witness ==
    /\ lastCall = "updateScoreOfItem"
    /\ thrown = null
    /\ initSummaryStoreCalls = 0
    /\ Len(modifiedItems) = 2
    /\ summaryItems = Some(modifiedItems)
    /\ heap[summaryItems[1][2]].score = Some(5)


\* C12: for an itemId that an item of the registry carries,
\* updateScoreOfItem writes the score of one item carrying it and
\* updateCommentOfItem the comment of one item carrying it, and nothing
\* else: the other fields of that item, every other object and the registry
\* array are unchanged, and so are itemTopicKeys, the items of every group
\* of itemsByTopics and getNumberOfItemsPerTopic of every key.
\* (The groups are those the getter of itemsByTopics makes of the keys.)
SameTopicIndex ==
    /\ modifiedItems' = modifiedItems
    /\ DOMAIN heap' = DOMAIN heap
    /\ \E keys \in {itemTopicKeys} :
          /\ itemTopicKeys' = keys
          /\ itemsByTopicsOf(keys)' = itemsByTopicsOf(keys)
    /\ \A k \in TopicKeys :
          getNumberOfItemsPerTopic(k)' = getNumberOfItemsPerTopic(k)

C12_ScoreAndCommentWriteOneField ==
    [][\A id \in ItemIds :
          (\E i \in 1..Len(modifiedItems) : Item(i).itemId = id) =>
            /\ \A s \in Scores :
                  (lastCall' = "updateScoreOfItem" /\ updateScoreOfItem(s, id)) =>
                    /\ \E i \in 1..Len(modifiedItems) :
                          /\ Item(i).itemId = id
                          /\ heap' = [heap EXCEPT ![modifiedItems[i]] =
                                        [itemId |-> @.itemId,
                                         topicKey |-> @.topicKey,
                                         topicTitle |-> @.topicTitle,
                                         score |-> Some(s),
                                         comment |-> @.comment,
                                         fulfilled |-> @.fulfilled]]
                    /\ thrown' = null
                    /\ SameTopicIndex
            /\ \A c \in Comments :
                  (lastCall' = "updateCommentOfItem" /\ updateCommentOfItem(c, id)) =>
                    /\ \E i \in 1..Len(modifiedItems) :
                          /\ Item(i).itemId = id
                          /\ heap' = [heap EXCEPT ![modifiedItems[i]] =
                                        [itemId |-> @.itemId,
                                         topicKey |-> @.topicKey,
                                         topicTitle |-> @.topicTitle,
                                         score |-> @.score,
                                         comment |-> Some(c),
                                         fulfilled |-> @.fulfilled]]
                    /\ thrown' = null
                    /\ SameTopicIndex]_vars

\* A score has just been written to the second of two items, which was not
\* fulfilled and had a comment: both are kept, and the first item keeps
\* its own comment and no score.
C12_Witness ==
    /\ lastCall = "updateScoreOfItem"
    /\ selectedItemIndex = Some(1)
    /\ Len(modifiedItems) = 2
    /\ Item(2).score = Some(5)
    /\ Item(2).fulfilled = FALSE /\ Item(2).comment = Some("c")
    /\ Item(1).score = null /\ Item(1).comment = Some("c")


\* C13: changeItemFulfilled with an itemId that no item of the registry
\* carries raises no error and changes no object and not the registry.
C13_ToggleOfMissingIdIsIgnored ==
    [][\A id \in ItemIds :
          (/\ lastCall' = "changeItemFulfilled"
           /\ \A i \in 1..Len(modifiedItems) : Item(i).itemId # id
           /\ changeItemFulfilled(id))
          => (thrown' = null /\ heap' = heap /\ modifiedItems' = modifiedItems)]_vars

\* A toggle of itemId 2 has just missed a registry of two items of itemId
\* 1: the first is still fulfilled, scored and commented.
C13_Witness ==
    /\ lastCall = "changeItemFulfilled"
    /\ selectedItemIndex = Some(0 - 1)
    /\ thrown = null
    /\ Len(modifiedItems) = 2
    /\ Item(1).itemId = 1 /\ Item(2).itemId = 1
    /\ Item(1).score = Some(5) /\ Item(1).comment = Some("c")
    /\ Item(1).fulfilled = TRUE


\* C15 as stated: in every reachable state no two items of the registry
\* carry the same itemId.
C15_ItemIdsUnique ==
    \A i, j \in 1..Len(modifiedItems) :
        Item(i).itemId = Item(j).itemId => i = j

\* C15 as it holds: when the raw records of the last setCopyOfItems carry
\* pairwise distinct itemIds, no two items of the registry carry the same
\* itemId, so at most one item carries a given itemId; setCopyOfItems does
\* not look at the itemIds, and raw records that share an itemId give items
\* that share it.
C15_ItemIdsUniqueWhenLoadedUnique ==
    /\ (\A i, j \in 1..Len(rawInput) :
           rawInput[i].itemId = rawInput[j].itemId => i = j)
       => /\ C15_ItemIdsUnique
          /\ \A id \in ItemIds :
                Cardinality({i \in 1..Len(modifiedItems) : Item(i).itemId = id}) <= 1
    /\ \A i \in 1..Len(modifiedItems) : Item(i).itemId = rawInput[i].itemId

\* Two raw records of itemIds 1 and 2 were loaded and both items have since
\* been written to: the registry still holds itemIds 1 and 2.
C15_Witness ==
    /\ Len(modifiedItems) = 2
    /\ rawInput[1].itemId = 1 /\ rawInput[2].itemId = 2
    /\ Item(1).itemId = 1 /\ Item(2).itemId = 2
    /\ Item(1).score = Some(5) /\ Item(2).fulfilled = FALSE


\* C16: every group of itemsByTopics has, besides topicKey, items and id,
\* a field topicTitle holding the topicTitle of the first item of the
\* registry that bears the group's topicKey.
C16_GroupsCarryTopicTitle ==
    \A p \in 1..Len(itemsByTopics) :
        /\ {"topicKey", "items", "id"} \subseteq DOMAIN itemsByTopics[p]
        /\ "topicTitle" \in DOMAIN itemsByTopics[p]
        /\ itemsByTopics[p].topicTitle =
              Item(Min({i \in 1..Len(modifiedItems) :
                          Item(i).topicKey = itemsByTopics[p].topicKey})).topicTitle


\* C17: every read of itemsByTopics that runs its getter (the computed was
\* dirty) leaves isItemsTopicExpanded with exactly one entry per topic key
\* of the registry, keyed by the id of that topic's group, and every entry
\* false, whatever the entries were before.
C17_RecomputationCollapsesEveryTopic ==
    [][(lastCall' = "itemsByTopics" /\ computedCache.itemsByTopics = null) =>
          LET groups == computedCache'.itemsByTopics[1]
              topics == {Item(i).topicKey : i \in 1..Len(modifiedItems)}
          IN  /\ DOMAIN isItemsTopicExpanded' =
                    {groups[p].id : p \in 1..Len(groups)}
              /\ Cardinality(DOMAIN isItemsTopicExpanded') = Cardinality(topics)
              /\ {groups[p].topicKey : p \in 1..Len(groups)} = topics
              /\ \A id \in DOMAIN isItemsTopicExpanded' :
                    isItemsTopicExpanded'[id] = FALSE]_vars

\* itemsByTopics has just been read of a registry of one item that was
\* loaded and written to: the one topic has its entry, collapsed.
C17_Witness ==
    /\ lastCall = "itemsByTopics"
    /\ Len(modifiedItems) = 1
    /\ Item(1).score = Some(5)
    /\ computedCache.itemsByTopics # null
    /\ DOMAIN isItemsTopicExpanded = {NUMBER_OF_STATIC_TOPICS + 1}
    /\ isItemsTopicExpanded[NUMBER_OF_STATIC_TOPICS + 1] = FALSE


\* C18: in every reachable state getNumberOfItemsPerTopic is at least 1 for
\* every key of itemTopicKeys, so no entry of totalProgress is computed by
\* getProgressPercent with total 0 (none is NaN or Infinity).
C18_EveryTopicKeyCountsAnItem ==
    /\ \A p \in 1..Len(itemTopicKeys) :
          getNumberOfItemsPerTopic(itemTopicKeys[p]) >= 1
    /\ \A p \in 1..Len(totalProgress) :
          totalProgress[p].progressPercent \notin {NaN, Infinity}

\* A registry of one item of topic "B" that a toggle has made not
\* fulfilled: the only key is "B", it counts one item, progress 100.00.
C18_Witness ==
    /\ lastCall = "changeItemFulfilled"
    /\ Len(modifiedItems) = 1
    /\ Item(1).fulfilled = FALSE
    /\ itemTopicKeys = <<"B">>
    /\ getNumberOfItemsPerTopic("B") = 1
    /\ getNumberOfItemsPerTopic("A") = 0
    /\ totalProgress[1].progressPercent = 10000


\* C19: when several items of the registry carry the same itemId,
\* updateScoreOfItem, updateCommentOfItem and changeItemFulfilled with that
\* itemId write to the first of them in registry order, and every later
\* item with that itemId is unchanged.
C19_DuplicateIdResolvesToFirst ==
    [][\A id \in ItemIds :
          LET at == {i \in 1..Len(modifiedItems) : Item(i).itemId = id} IN
          Cardinality(at) >= 2 =>
            LET first == modifiedItems[Min(at)]
                LaterUnchanged ==
                    \A j \in at \ {Min(at)} :
                        heap'[modifiedItems[j]] = heap[modifiedItems[j]]
            IN  /\ \A s \in Scores :
                      (lastCall' = "updateScoreOfItem" /\ updateScoreOfItem(s, id)) =>
                          heap'[first].score = Some(s) /\ LaterUnchanged
                /\ \A c \in Comments :
                      (lastCall' = "updateCommentOfItem" /\ updateCommentOfItem(c, id)) =>
                          heap'[first].comment = Some(c) /\ LaterUnchanged
                /\ (lastCall' = "changeItemFulfilled" /\ changeItemFulfilled(id)) =>
                      /\ heap'[first].fulfilled = ~heap[first].fulfilled
                      /\ heap'[first].score = null
                      /\ LaterUnchanged]_vars

\* Two items of itemId 1: the first has been toggled, scored and commented,
\* the second is as the load left it.
C19_Witness ==
    /\ lastCall = "updateCommentOfItem"
    /\ selectedItemIndex = Some(0)
    /\ Len(modifiedItems) = 2
    /\ Item(1).itemId = 1 /\ Item(2).itemId = 1
    /\ Item(1).fulfilled = FALSE
    /\ Item(1).score = Some(5) /\ Item(1).comment = Some("c")
    /\ IsNormalized(2)


\* The topics that have an item neither scored nor marked not fulfilled,
\* as positions of totalProgress.
TopicsWithUnanswered ==
    {p \in 1..Len(totalProgress) :
        \E i \in 1..Len(modifiedItems) :
            Item(i).topicKey = totalProgress[p].topicKey /\ ~Answered(i)}

\* C20 as stated: for 0 <= value <= total and total >= 1,
\* getProgressPercent(value, total) is 100 if and only if value = total; so
\* no topic with an unanswered item has progressPercent 100.
C20_HundredIffValueIsTotal ==
    /\ percentCall # null =>
          (percentCall[1].result = 10000
              <=> percentCall[1].value = percentCall[1].total)
    /\ \A p \in TopicsWithUnanswered : totalProgress[p].progressPercent # 10000

\* C20 as it holds: for 0 <= value <= total and 1 <= total <= 19999,
\* getProgressPercent(value, total) is 100 if and only if value = total,
\* and it is 100 whenever value = total, whatever the total; so no topic of
\* at most 19999 items with an unanswered item has progressPercent 100.
C20_HundredIffValueIsTotalBelow20000 ==
    /\ percentCall # null =>
          /\ percentCall[1].total <= 19999 =>
                (percentCall[1].result = 10000
                    <=> percentCall[1].value = percentCall[1].total)
          /\ percentCall[1].value = percentCall[1].total =>
                percentCall[1].result = 10000
    /\ \A p \in TopicsWithUnanswered :
          getNumberOfItemsPerTopic(totalProgress[p].topicKey) <= 19999
              => totalProgress[p].progressPercent # 10000

\* 19998 of 19999 is 99.99, and the one item of the registry, which a
\* toggle made not fulfilled and a second toggle fulfilled again, is
\* unanswered: its topic is at 0.00.
C20_Witness ==
    /\ percentCall = Some([value |-> 19998, total |-> 19999, result |-> 9999])
    /\ lastCall = "changeItemFulfilled"
    /\ Len(modifiedItems) = 1
    /\ TopicsWithUnanswered = {1}
    /\ totalProgress[1].progressPercent = 0

=============================================================================
